---- MODULE Spec2Model ----
(***************************************************************************)
(* DataGenerator (python/lsst/dax/data_generator/generator.py): the table  *)
(* order resolver _resolve_table_order, the result splitter _add_to_list   *)
(* and the chunk assembler make_chunk, as a state machine.                 *)
(*                                                                         *)
(* A specification dictionary is a sequence of table entries (a Python     *)
(* dict keeps insertion order).  A column-generator entry is the number of *)
(* output names its key declares ("ra,decl" is 2); the k-th name of entry  *)
(* e of a table is the pair <<e, k>>.  An array is a sequence of values; a *)
(* value made by a generator call records the prerequisite row the call    *)
(* was given (0 for a call without prereq_row) and the position of its     *)
(* array in the returned sequence.  The entries of one table declare      *)
(* different names.  column_generator is a plugin: what a call returns is  *)
(* chosen freely among the shapes of GenReturns.                           *)
(***************************************************************************)
EXTENDS Integers, Sequences, FiniteSets, TLC

VARIABLES
    spec,            \* self.spec: the specification dictionary
    num_rows,        \* make_chunk's num_rows argument (scalar or dict)
    pc,              \* position of the running call
    order,           \* the sequence _resolve_table_order returned
    idx,             \* position of the for loop of line 103 in order
    entry,           \* position of the for loop of line 108 in the columns
    n,               \* the loop variable of line 121
    output_columns,  \* line 107: name -> list of arrays
    output_tables,   \* line 97: table name -> DataFrame
    err,             \* the exception that ended the call, or NoError
    last_call,       \* the latest column_generator invocation
    writes,          \* history: how many times line 132 assigned each key
    built            \* history: how the table being built (cur) and each
                     \* registered table (done) were built

vars == <<spec, num_rows, pc, order, idx, entry, n, output_columns,
          output_tables, err, last_call, writes, built>>

-----------------------------------------------------------------------------
(* Bounds of the inputs. *)

\* Longest array one generator call returns, and largest configured row count.
MaxLen == 2

None == "None"
\* A name that is never a table of the specification.
Missing == "X"

\* The table names of the specifications given to _resolve_table_order
\* alone, and of those given to make_chunk, in dictionary order: a
\* specification has the first k of them as its keys, for any k >= 1.
OrderTables == <<"A", "B", "C">>

ChunkTables == <<"A", "B">>

TableKeys(names, k) == {names[i] : i \in 1..k}

\* What one table may declare: any table of the specification or the
\* missing name as prereq_row (or none), and a prereq_tables list of at
\* most one such name.
PrereqRowChoices(keys) == {None, Missing} \cup keys

PrereqTablesChoices(keys) == {<<>>} \cup {<<t>> : t \in keys \cup {Missing}}

\* The "columns" of a table: the number of names each entry declares.
ColumnLayouts == {<<>>, <<1>>, <<2>>, <<1, 1>>}

TableSpecs(name, keys, layouts) ==
    [name : {name},
     prereq_row : PrereqRowChoices(keys),
     prereq_tables : PrereqTablesChoices(keys),
     columns : layouts]

RECURSIVE SpecsUpTo(_, _, _, _)
SpecsUpTo(names, k, i, layouts) ==
    IF i = 0 THEN {<<>>}
    ELSE {Append(s, t) : s \in SpecsUpTo(names, k, i - 1, layouts),
                         t \in TableSpecs(names[i], TableKeys(names, k), layouts)}

\* Every specification whose keys are the first k names, k >= 1.
Specifications(names, layouts) ==
    UNION {SpecsUpTo(names, k, k, layouts) : k \in DOMAIN names}

-----------------------------------------------------------------------------
(* Helpers on sequences. *)

Range(s) == {s[i] : i \in DOMAIN s}

RECURSIVE Orderings(_)
Orderings(S) ==
    IF S = {} THEN {<<>>}
    ELSE UNION {{<<x>> \o p : p \in Orderings(S \ {x})} : x \in S}

RECURSIVE Flatten(_)
Flatten(ss) == IF ss = <<>> THEN <<>> ELSE Head(ss) \o Flatten(Tail(ss))

-----------------------------------------------------------------------------
(* _resolve_table_order, lines 25-46. *)

\* all_tables (line 37)
all_tables(sp) == {sp[i].name : i \in DOMAIN sp}

SpecOf(sp, t) == sp[CHOOSE i \in DOMAIN sp : sp[i].name = t]

\* What one table appends to prereqs (lines 40-44): its prereq_row when it
\* is a table, then each of its prereq_tables that is a table.
\* Faulty lines 40-44: names appended without the test "in all_tables".
TablePrereqsUnfiltered(sp, ts) ==
    (IF ts.prereq_row # None THEN <<ts.prereq_row>> ELSE <<>>)
    \o ts.prereq_tables

TablePrereqs(sp, ts) ==
    (IF ts.prereq_row \in all_tables(sp) THEN <<ts.prereq_row>> ELSE <<>>)
    \o SelectSeq(ts.prereq_tables, LAMBDA p : p \in all_tables(sp))

\* prereqs after the loop of lines 39-44.
RECURSIVE PrereqsFrom(_, _)
PrereqsFrom(sp, i) ==
    IF i > Len(sp) THEN <<>>
    ELSE TablePrereqs(sp, sp[i]) \o PrereqsFrom(sp, i + 1)

Prereqs(sp) == PrereqsFrom(sp, 1)

\* A faulty line 45: the tables that are no prerequisite are forgotten.
NonPrereqsForgotten(sp) == {}

\* non_prereqs (line 45)
NonPrereqs(sp) == all_tables(sp) \ Range(Prereqs(sp))

\* A faulty line 46: list(non_prereqs) + prereqs.
ResolveTableOrdersPrereqsLast(sp) ==
    {p \o Prereqs(sp) : p \in Orderings(NonPrereqs(sp))}

\* The sequences line 46 may return: list(non_prereqs) lists a set of
\* strings, whose iteration order is not fixed.
ResolveTableOrders(sp) ==
    {Prereqs(sp) \o p : p \in Orderings(NonPrereqs(sp))}

-----------------------------------------------------------------------------
(* Values of the running call. *)

EmptyMap == [x \in {} |-> 0]

NoError == [type |-> "none", line |-> 0, key |-> None]

Raised(type, line, key) == [type |-> type, line |-> line, key |-> key]

NoCall == [table |-> None, entry |-> 0, row |-> 0, rows_arg |-> 0,
           kind |-> "none", arrays |-> <<>>, missing |-> {},
           ctx |-> EmptyMap]

NoBuild == [prow |-> 0, calls |-> 0, unit |-> TRUE, conform |-> TRUE]

\* num_rows (lines 85-87): a scalar, or a dictionary {table_name: num_rows}
\* that may lack tables (here it gives one count to the tables it names).
NumRowsChoices(keys) ==
    [mode : {"scalar"}, value : {0, MaxLen}, map : {EmptyMap}]
    \cup [mode : {"dict"}, value : {0},
          map : UNION {{[t \in S |-> v] : v \in {0, MaxLen}} :
                          S \in SUBSET keys}]

\* rows_per_table[table] (lines 98-101, read at lines 116 and 123): the
\* dictionary raises KeyError for a table it lacks, the defaultdict never.
HasRows(nr, t) == nr.mode = "scalar" \/ t \in DOMAIN nr.map

\* A faulty line 101: defaultdict(int), whose default is 0.
RowsForDefaultZero(nr, t) == IF nr.mode = "scalar" THEN 0 ELSE nr.map[t]

RowsFor(nr, t) == IF nr.mode = "scalar" THEN nr.value ELSE nr.map[t]

\* The names of entry e of a table: column_name.split(",") (line 110).
split_column_names(e, k) == [i \in 1..k |-> <<e, i>>]

\* len(DataFrame): the length of its columns, 0 without columns.
NumRows(df) ==
    IF DOMAIN df = {} THEN 0 ELSE Len(df[CHOOSE c \in DOMAIN df : TRUE])

-----------------------------------------------------------------------------
(* The column-generator protocol: what one call may return for an entry of *)
(* k names, given prerequisite row r (0 without prereq_row).  Generators   *)
(* are plugins: the call may return a single array of any length up to     *)
(* MaxLen, or a sequence of k - 1, k or k + 1 arrays of one such length;   *)
(* in a sequence of k >= 2 arrays the last may also be one value short.    *)

Array(r, i, len) == [j \in 1..len |-> [row |-> r, pos |-> i]]

EvenArrays(r, m) ==
    {[i \in 1..m |-> Array(r, i, l)] : l \in 0..MaxLen}

UnevenArrays(r, m) ==
    {[i \in 1..m |-> Array(r, i, IF i = m THEN l - 1 ELSE l)] :
        l \in IF m >= 2 THEN 1..MaxLen ELSE {}}

GenReturns(k, r) ==
    [kind : {"single"}, arrays : EvenArrays(r, 1)]
    \cup [kind : {"seq"},
          arrays : EvenArrays(r, k - 1) \cup EvenArrays(r, k)
                   \cup UnevenArrays(r, k) \cup EvenArrays(r, k + 1)]

-----------------------------------------------------------------------------
(* _add_to_list, lines 48-76. *)

\* A faulty append: insert(0, ...), which puts the array in front.
AppendToFront(cols, name, a) == [cols EXCEPT ![name] = <<a>> \o @]

AppendTo(cols, name, a) == [cols EXCEPT ![name] = Append(@, a)]

\* Lines 74-76: "assert ValueError, (...)" asserts a class object, which
\* is true, with the message as the assertion's message: nothing is raised.
ArityAssert(names) == NoError

\* A faulty distribution: generated_data[-1 - i], which hands the arrays
\* out from the last one backwards.
AddSequenceBackwards(arrays, cols, names, i) ==
    IF Len(arrays) < Len(names)
    THEN [cols |-> cols, exc |-> Raised("IndexError", 71, None)]
    ELSE [cols |-> [c \in DOMAIN cols |->
                      IF \E j \in DOMAIN names : names[j] = c
                      THEN Append(cols[c],
                                  arrays[Len(arrays) + 1
                                         - (CHOOSE j \in DOMAIN names :
                                                names[j] = c)])
                      ELSE cols[c]],
          exc |-> NoError]

\* Lines 69-71: generated_data[i] goes to the i-th name; indexing past the
\* end of generated_data raises IndexError.
RECURSIVE AddSequence(_, _, _, _)
AddSequence(arrays, cols, names, i) ==
    IF i > Len(names) THEN [cols |-> cols, exc |-> NoError]
    ELSE IF i > Len(arrays)
         THEN [cols |-> cols, exc |-> Raised("IndexError", 71, None)]
         ELSE AddSequence(arrays, AppendTo(cols, names[i], arrays[i]),
                          names, i + 1)

\* Lines 72-76: a single array goes to the first name.
AddSingle(a, cols, names) ==
    [cols |-> AppendTo(cols, names[1], a), exc |-> ArityAssert(names)]

\* generated_data is [kind, arrays]; the result is the new output_columns
\* and the exception raised, if any.
AddToList(generated_data, cols, names) ==
    IF generated_data.kind = "seq"
    THEN AddSequence(generated_data.arrays, cols, names, 1)
    ELSE AddSingle(generated_data.arrays[1], cols, names)

-----------------------------------------------------------------------------
(* make_chunk, lines 78-134. *)

CurTable == order[idx]

CurSpec == SpecOf(spec, CurTable)

CurNames == split_column_names(entry, CurSpec.columns[entry])

\* Every name a table declares as a prerequisite.
PrereqNames(ts) ==
    Range(ts.prereq_tables)
    \cup (IF ts.prereq_row = None THEN {} ELSE {ts.prereq_row})

\* Lines 111-112: output_columns[name] = [] for each name of the entry.
InitBuffers(cols, names) ==
    [c \in DOMAIN cols \cup Range(names) |->
        IF c \in Range(names) THEN <<>> ELSE cols[c]]

\* A faulty lookup: output_tables.get(t), which never raises.
PrereqTablesLookupLax(prereq_tables, tables) == None

\* {t: output_tables[t] for t in prereq_tables} (lines 117 and 120): the
\* first name that output_tables lacks raises KeyError; None when all are
\* there.
PrereqTablesLookup(prereq_tables, tables) ==
    IF \E i \in DOMAIN prereq_tables : prereq_tables[i] \notin DOMAIN tables
    THEN prereq_tables[CHOOSE i \in DOMAIN prereq_tables :
             /\ prereq_tables[i] \notin DOMAIN tables
             /\ \A j \in 1..(i - 1) : prereq_tables[j] \in DOMAIN tables]
    ELSE None

\* A tolerant concatenation, which gives an empty array for an empty list.
ConcatenateTolerant(cols) == TRUE

\* np.concatenate (line 129) raises ValueError for an empty list.
ConcatenateOK(cols) == \A c \in DOMAIN cols : cols[c] # <<>>

Concatenated(cols) == [c \in DOMAIN cols |-> Flatten(cols[c])]

\* A table assembled without the check of the lengths.
DataFrameUnchecked(arrays) == TRUE

\* pd.DataFrame (line 132) raises ValueError for arrays of unequal length.
DataFrameOK(arrays) ==
    \A c1, c2 \in DOMAIN arrays : Len(arrays[c1]) = Len(arrays[c2])

\* A faulty line 121: a loop that never finds the end of the rows.
InRangeAlways(i, df) == TRUE

\* A faulty line 121: range(len(...) - 1).
InRangeShort(i, df) == i < NumRows(df) - 1

\* range(len(output_tables[prereq_rows])) (line 121): whether the loop has
\* an iteration for i.
InRange(i, df) == i < NumRows(df)

\* Whether a call gave exactly len values for each of the k names.
Gives(ret, k, len) ==
    /\ IF ret.kind = "seq" THEN Len(ret.arrays) >= k ELSE k = 1
    /\ \A i \in 1..k : i <= Len(ret.arrays) => Len(ret.arrays[i]) = len

\* The prereq_tables argument of a call (lines 117 and 120, 125).
BulkContext(prereq_tables, tables) ==
    [t \in Range(prereq_tables) \cap DOMAIN tables |-> tables[t]]

Call(t, e, r, rows, ret) ==
    [table |-> t, entry |-> e, row |-> r, rows_arg |-> rows,
     kind |-> ret.kind, arrays |-> ret.arrays,
     missing |-> PrereqNames(SpecOf(spec, t)) \ DOMAIN output_tables,
     ctx |-> BulkContext(SpecOf(spec, t).prereq_tables, output_tables)]

Noted(b, ret, k, rows) ==
    [b EXCEPT !.calls = @ + 1,
              !.unit = @ /\ Gives(ret, k, 1),
              !.conform = @ /\ Gives(ret, k, rows)]

Fail(e) ==
    /\ pc' = "failed"
    /\ err' = e
    /\ UNCHANGED <<spec, num_rows, order, idx, entry, n, output_columns,
                   output_tables, last_call, writes, built>>

\* Lines 97-103: the call starts and resolves the table order.
StartChunk ==
    /\ pc = "idle"
    /\ order' \in ResolveTableOrders(spec)
    /\ idx' = 1
    /\ output_tables' = EmptyMap
    /\ pc' = "table"
    /\ UNCHANGED <<spec, num_rows, entry, n, output_columns, err,
                   last_call, writes, built>>

\* Lines 104-107: the next table of the order.
BeginTable ==
    /\ pc = "table"
    /\ idx <= Len(order)
    /\ entry' = 1
    /\ output_columns' = EmptyMap
    /\ built' = [built EXCEPT !.cur = NoBuild]
    /\ pc' = "entry"
    /\ UNCHANGED <<spec, num_rows, order, idx, n, output_tables, err,
                   last_call, writes>>

\* Lines 108-118: an entry of a table without prereq_row: one call.
BulkCall ==
    /\ pc = "entry"
    /\ entry <= Len(CurSpec.columns)
    /\ CurSpec.prereq_row = None
    /\ LET cols == InitBuffers(output_columns, CurNames)
           lacking == PrereqTablesLookup(CurSpec.prereq_tables, output_tables)
       IN IF ~HasRows(num_rows, CurTable)
          THEN Fail(Raised("KeyError", 116, CurTable))
          ELSE IF lacking # None
          THEN Fail(Raised("KeyError", 117, lacking))
          ELSE \E ret \in GenReturns(Len(CurNames), 0) :
               LET rows == RowsFor(num_rows, CurTable)
                   res == AddToList(ret, cols, CurNames)
               IN /\ last_call' = Call(CurTable, entry, 0, rows, ret)
                  /\ built' = [built EXCEPT
                                 !.cur = Noted(@, ret, Len(CurNames), rows)]
                  /\ output_columns' = res.cols
                  /\ IF res.exc # NoError
                     THEN /\ pc' = "failed"
                          /\ err' = res.exc
                          /\ entry' = entry
                     ELSE /\ pc' = "entry"
                          /\ err' = err
                          /\ entry' = entry + 1
                  /\ UNCHANGED <<spec, num_rows, order, idx, n,
                                 output_tables, writes>>

\* Lines 108-112 and 119-121: an entry of a table with prereq_row: the
\* bulk context and the prerequisite table are looked up, and the loop over
\* its rows starts (and ends at once when it has no rows).
BeginRows ==
    /\ pc = "entry"
    /\ entry <= Len(CurSpec.columns)
    /\ CurSpec.prereq_row # None
    /\ LET cols == InitBuffers(output_columns, CurNames)
           lacking == PrereqTablesLookup(CurSpec.prereq_tables, output_tables)
       IN IF lacking # None
          THEN Fail(Raised("KeyError", 120, lacking))
          ELSE IF CurSpec.prereq_row \notin DOMAIN output_tables
          THEN Fail(Raised("KeyError", 121, CurSpec.prereq_row))
          ELSE LET len == NumRows(output_tables[CurSpec.prereq_row])
               IN /\ output_columns' = cols
                  /\ built' = [built EXCEPT !.cur.prow = len]
                  /\ n' = 0
                  /\ IF InRange(0, output_tables[CurSpec.prereq_row])
                     THEN pc' = "rows" /\ entry' = entry
                     ELSE pc' = "entry" /\ entry' = entry + 1
                  /\ UNCHANGED <<spec, num_rows, order, idx, output_tables,
                                 err, last_call, writes>>

\* Lines 121-126: the call for row n of the prerequisite table.
RowCall ==
    /\ pc = "rows"
    /\ IF ~HasRows(num_rows, CurTable)
       THEN Fail(Raised("KeyError", 123, CurTable))
       ELSE \E ret \in GenReturns(Len(CurNames), n + 1) :
            LET rows == RowsFor(num_rows, CurTable)
                res == AddToList(ret, output_columns, CurNames)
                more == InRange(n + 1, output_tables[CurSpec.prereq_row])
            IN /\ last_call' = Call(CurTable, entry, n + 1, rows, ret)
               /\ built' = [built EXCEPT
                              !.cur = Noted(@, ret, Len(CurNames), rows)]
               /\ output_columns' = res.cols
               /\ IF res.exc # NoError
                  THEN /\ pc' = "failed"
                       /\ err' = res.exc
                       /\ UNCHANGED <<entry, n>>
                  ELSE /\ err' = err
                       /\ IF more
                          THEN pc' = "rows" /\ entry' = entry /\ n' = n + 1
                          ELSE pc' = "entry" /\ entry' = entry + 1 /\ n' = n
               /\ UNCHANGED <<spec, num_rows, order, idx, output_tables,
                              writes>>

\* Lines 128-132: the buffers are concatenated and the table registered.
FinishTable ==
    /\ pc = "entry"
    /\ entry > Len(CurSpec.columns)
    /\ IF ~ConcatenateOK(output_columns)
       THEN Fail(Raised("ValueError", 129, None))
       ELSE IF ~DataFrameOK(Concatenated(output_columns))
       THEN Fail(Raised("ValueError", 132, None))
       ELSE /\ output_tables' =
                 [t \in DOMAIN output_tables \cup {CurTable} |->
                     IF t = CurTable THEN Concatenated(output_columns)
                     ELSE output_tables[t]]
            /\ writes' = [writes EXCEPT ![CurTable] = @ + 1]
            /\ built' = [built EXCEPT !.done[CurTable] = built.cur]
            /\ idx' = idx + 1
            /\ pc' = "table"
            /\ UNCHANGED <<spec, num_rows, order, entry, n, output_columns,
                           err, last_call>>

\* Line 134.
Return ==
    /\ pc = "table"
    /\ idx > Len(order)
    /\ pc' = "returned"
    /\ UNCHANGED <<spec, num_rows, order, idx, entry, n, output_columns,
                   output_tables, err, last_call, writes, built>>

InitCall ==
    /\ order = <<>>
    /\ idx = 0
    /\ entry = 0
    /\ n = 0
    /\ output_columns = EmptyMap
    /\ output_tables = EmptyMap
    /\ err = NoError
    /\ last_call = NoCall
    /\ writes = [t \in all_tables(spec) |-> 0]
    /\ built = [cur |-> NoBuild, done |-> [t \in all_tables(spec) |-> NoBuild]]

\* A DataGenerator constructed on a specification (lines 11-22), about to
\* be asked for a chunk.
Init ==
    /\ spec \in Specifications(ChunkTables, ColumnLayouts)
    /\ num_rows \in NumRowsChoices(all_tables(spec))
    /\ pc = "idle"
    /\ InitCall

Next ==
    \/ StartChunk
    \/ BeginTable
    \/ BulkCall
    \/ BeginRows
    \/ RowCall
    \/ FinishTable
    \/ Return

Spec == Init /\ [][Next]_vars

\* A call of make_chunk that has started keeps running until it returns or
\* raises: every generator call terminates and nothing else suspends it.
Running == Next /\ pc # "idle"

FairSpec == Init /\ [][Next]_vars /\ WF_vars(Running)

-----------------------------------------------------------------------------
(* _resolve_table_order on its own: a specification is drawn and the       *)
(* static method is applied to it.                                         *)

ResolveOnly ==
    /\ pc = "resolve"
    /\ order' \in ResolveTableOrders(spec)
    /\ pc' = "resolved"
    /\ UNCHANGED <<spec, num_rows, idx, entry, n, output_columns,
                   output_tables, err, last_call, writes, built>>

InitOrder ==
    /\ spec \in Specifications(OrderTables, {<<>>})
    /\ num_rows = [mode |-> "scalar", value |-> 0, map |-> EmptyMap]
    /\ pc = "resolve"
    /\ InitCall

NextOrder == ResolveOnly

SpecOrder == InitOrder /\ [][NextOrder]_vars

-----------------------------------------------------------------------------
(* Properties. *)

Positions(o, t) == {i \in DOMAIN o : o[i] = t}

Registered == DOMAIN output_tables

\* The names a table's columns declare.
DeclaredNames(ts) ==
    UNION {Range(split_column_names(e, ts.columns[e])) : e \in DOMAIN ts.columns}

\* No table that is named as a prerequisite declares a prerequisite.
OneLevelDeep(sp) ==
    \A i \in DOMAIN sp :
        \A p \in PrereqNames(sp[i]) \cap all_tables(sp) :
            PrereqNames(SpecOf(sp, p)) = {}

NoPrereqs(sp) == \A i \in DOMAIN sp : PrereqNames(sp[i]) = {}

\* C1: when no table named as a prerequisite declares a prerequisite, the
\* resolved order holds every prerequisite that is a table of the
\* specification, and the table referring to it, and every occurrence of
\* the prerequisite comes before every occurrence of the referring table.
C1_PrereqsPrecede ==
    (pc = "resolved" /\ OneLevelDeep(spec)) =>
        \A i \in DOMAIN spec :
            \A p \in PrereqNames(spec[i]) \cap all_tables(spec) :
                /\ Positions(order, p) # {}
                /\ Positions(order, spec[i].name) # {}
                /\ \A a \in Positions(order, p) :
                       \A b \in Positions(order, spec[i].name) : a < b

\* The shape of testResolveTableOrder: a table whose prereq_row is no table
\* of the specification and whose prereq_tables names one.
C1_Witness ==
    /\ pc = "resolved"
    /\ OneLevelDeep(spec)
    /\ Len(order) >= 2
    /\ \E i \in DOMAIN spec :
          /\ spec[i].prereq_row = Missing
          /\ Range(spec[i].prereq_tables) \cap all_tables(spec) # {}

\* C2: each key of output_tables is assigned at most once during a call:
\* a registered table is never assigned again.  Stated for specifications
\* that have a build order (no prerequisite declares a prerequisite).
C2_WrittenOnce ==
    OneLevelDeep(spec) => \A t \in DOMAIN writes : writes[t] <= 1

\* C3: the resolved order holds every table of the specification exactly
\* once.  Stated for specifications that have a build order (no
\* prerequisite declares a prerequisite).
C3_EachTableOnce ==
    (pc = "resolved" /\ OneLevelDeep(spec)) =>
        \A t \in all_tables(spec) : Cardinality(Positions(order, t)) = 1

\* C4: whenever a column generator of a table is invoked, every table named
\* in that table's prereq_tables and prereq_row is registered.
C4_PrereqsRegisteredAtCall ==
    last_call.table # None => last_call.missing = {}

\* A generator of a table declaring both kinds of prerequisite was invoked.
C4_Witness ==
    /\ last_call.table # None
    /\ SpecOf(spec, last_call.table).prereq_row # None
    /\ SpecOf(spec, last_call.table).prereq_tables # <<>>

\* C5 as claimed: a registered table declaring prereq_row = P has as many
\* rows as the registered table P.  Stated for tables that have a column
\* entry and specifications in which no table is built twice.
C5_RowsEqualPrereqRows ==
    \A t \in Registered :
        LET ts == SpecOf(spec, t)
        IN (/\ ts.prereq_row # None
            /\ ts.columns # <<>>
            /\ \A u \in DOMAIN writes : writes[u] <= 1) =>
               /\ ts.prereq_row \in Registered
               /\ NumRows(output_tables[t]) =
                      NumRows(output_tables[ts.prereq_row])

\* C5, amended: for a registered table declaring prereq_row = P, each of
\* its column entries was called once per row P had when the table was
\* built; it has that number of rows if it has a column entry and every
\* call returned exactly one value for each declared name, and no rows if
\* it has no column entry; whatever row count is configured for it.
C5_RowsFollowCalls ==
    \A t \in Registered :
        LET ts == SpecOf(spec, t)
            b == built.done[t]
        IN ts.prereq_row # None =>
              /\ b.calls = Len(ts.columns) * b.prow
              /\ ts.columns = <<>> => NumRows(output_tables[t]) = 0
              /\ (ts.columns # <<>> /\ b.unit) =>
                     NumRows(output_tables[t]) = b.prow

\* Scenario B: a table built from the rows of a prerequisite of two rows,
\* one value per call, while its configured row count is 0.
C5_Witness ==
    \E t \in Registered :
        LET ts == SpecOf(spec, t)
        IN /\ ts.prereq_row # None
           /\ ts.columns # <<>>
           /\ built.done[t].unit
           /\ built.done[t].prow = 2
           /\ NumRows(output_tables[t]) = 2
           /\ HasRows(num_rows, t)
           /\ RowsFor(num_rows, t) = 0

\* C6 as claimed: without prerequisites and with a scalar row count R,
\* every table of the returned output whose generators gave R values per
\* name has R rows and one column per declared name.
C6_EveryTableHasRRows ==
    (pc = "returned" /\ NoPrereqs(spec) /\ num_rows.mode = "scalar") =>
        \A t \in Registered :
            built.done[t].conform =>
                /\ NumRows(output_tables[t]) = num_rows.value
                /\ DOMAIN output_tables[t] = DeclaredNames(SpecOf(spec, t))

\* C6, amended: the same for every table that declares at least one
\* column; a table without columns has one column per declared name (none)
\* and no rows.
C6_TablesWithColumnsHaveRRows ==
    (pc = "returned" /\ NoPrereqs(spec) /\ num_rows.mode = "scalar") =>
        \A t \in Registered :
            built.done[t].conform =>
                /\ DOMAIN output_tables[t] = DeclaredNames(SpecOf(spec, t))
                /\ NumRows(output_tables[t]) =
                       IF SpecOf(spec, t).columns = <<>> THEN 0
                       ELSE num_rows.value

\* Two tables with columns, one of them from a two-name entry, returned
\* with R = MaxLen rows each.
C6_Witness ==
    /\ pc = "returned"
    /\ NoPrereqs(spec)
    /\ num_rows.mode = "scalar"
    /\ num_rows.value = MaxLen
    /\ Cardinality(Registered) = 2
    /\ \E t \in Registered : SpecOf(spec, t).columns = <<2>>
    /\ \A t \in Registered :
          /\ built.done[t].conform
          /\ SpecOf(spec, t).columns # <<>>
          /\ NumRows(output_tables[t]) = MaxLen

\* C7: when a generator returns a single value for an entry declaring more
\* than one name, the call has failed with a column arity mismatch error.
C7_ArityMismatchRaised ==
    (/\ last_call.kind = "single"
     /\ SpecOf(spec, last_call.table).columns[last_call.entry] > 1) =>
        (pc = "failed" /\ err.type = "ArityMismatch")

\* C8: a call that fails looking up a prerequisite table in output_tables
\* fails with an unresolved prerequisite error.
C8_UnresolvedPrerequisiteRaised ==
    (pc = "failed" /\ err.line \in {117, 120, 121}) =>
        err.type = "UnresolvedPrerequisite"

\* C9: a call that fails reading the row count of a table fails with a
\* row count not specified error for that table.
C9_RowCountNotSpecifiedRaised ==
    (pc = "failed" /\ err.line \in {116, 123}) =>
        (err.type = "RowCountNotSpecified" /\ err.key = CurTable)

\* C10: all columns of a registered table have the same length.
C10_ColumnsSameLength ==
    \A t \in Registered :
        \A c1, c2 \in DOMAIN output_tables[t] :
            Len(output_tables[t][c1]) = Len(output_tables[t][c2])

\* A table of two entries, whose generators may differ in what they give,
\* is registered with rows.
C10_Witness ==
    \E t \in Registered :
        /\ SpecOf(spec, t).columns = <<1, 1>>
        /\ NumRows(output_tables[t]) >= 1

\* C11: when a generator returns a sequence of more arrays than the entry
\* has names, the call has failed with a column arity mismatch error (the
\* claim says the same of a sequence of fewer arrays).
C11_SequenceArityMismatchRaised ==
    (/\ last_call.kind = "seq"
     /\ Len(last_call.arrays) >
            SpecOf(spec, last_call.table).columns[last_call.entry]) =>
        (pc = "failed" /\ err.type = "ArityMismatch")

\* C12: the output make_chunk returns has exactly the tables of the
\* specification as its keys.
C12_ReturnsEveryTable ==
    pc = "returned" => Registered = all_tables(spec)

\* The shape of testForcedSource: a table built from the rows of another is
\* returned along with it.
C12_Witness ==
    /\ pc = "returned"
    /\ Cardinality(all_tables(spec)) = 2
    /\ \E t \in Registered :
          /\ SpecOf(spec, t).prereq_row \in Registered \ {t}
          /\ NumRows(output_tables[t]) >= 1

\* C16: the names in the resolved order are exactly the tables of the
\* specification.
C16_OrderNamesAreTables ==
    pc = "resolved" => Range(order) = all_tables(spec)

\* A name that is no table is declared as prereq_row and in a
\* prereq_tables list, and three tables are ordered.
C16_Witness ==
    /\ pc = "resolved"
    /\ Cardinality(all_tables(spec)) = 3
    /\ \E i \in DOMAIN spec : spec[i].prereq_row = Missing
    /\ \E i \in DOMAIN spec : spec[i].prereq_tables = <<Missing>>
    /\ Range(order) = all_tables(spec)

\* A step in which column_generator was called.
CallStep == built'.cur.calls = built.cur.calls + 1

\* While the rows of the prerequisite table are looped over, the first
\* name of the entry has one buffered array per call made, the j-th of
\* them made from row j; the columns of a registered table with prereq_row
\* hold the values in the order of the rows they were made from, each
\* entry having been called once per row.
C13_BuffersInRowOrder ==
    /\ pc = "rows" =>
          LET buf == output_columns[CurNames[1]]
          IN /\ Len(buf) = n
             /\ n < NumRows(output_tables[CurSpec.prereq_row])
             /\ \A j \in DOMAIN buf : \A i \in DOMAIN buf[j] : buf[j][i].row = j
    /\ \A t \in Registered :
          LET ts == SpecOf(spec, t)
              b == built.done[t]
          IN ts.prereq_row # None =>
                /\ b.calls = Len(ts.columns) * b.prow
                /\ \A c \in DOMAIN output_tables[t] :
                      LET col == output_tables[t][c]
                      IN \A i, j \in DOMAIN col :
                            /\ col[i].row \in 1..b.prow
                            /\ i < j => col[i].row <= col[j].row

\* A call made in the loop over the rows is made for the row the loop is
\* at, with the bulk context of the table's prereq_tables; after the first
\* row, the call before it was for the row before, with the same context.
C13_CallPerRowInOrder ==
    (pc = "rows" /\ CallStep) =>
        /\ last_call'.table = CurTable
        /\ last_call'.entry = entry
        /\ last_call'.row = n + 1
        /\ last_call'.ctx = [t \in Range(CurSpec.prereq_tables) |->
                               output_tables[t]]
        /\ n >= 1 => /\ last_call.row = n
                     /\ last_call.entry = entry
                     /\ last_call.ctx = last_call'.ctx

\* C13: for a table declaring prereq_row = P, each column entry is called
\* once per row of the built table P, in P's row order, each call with
\* that row and the same bulk context, and each final column is the
\* concatenation of the per-row results in that order.
C13_OncePerRowInOrder ==
    []C13_BuffersInRowOrder /\ [][C13_CallPerRowInOrder]_vars

\* A table of two entries was built from a prerequisite table of two rows,
\* with a bulk context, and holds values made from both rows.
C13_Witness ==
    \E t \in Registered :
        LET ts == SpecOf(spec, t)
        IN /\ ts.prereq_row # None
           /\ ts.prereq_tables # <<>>
           /\ Len(ts.columns) = 2
           /\ built.done[t].prow = 2
           /\ built.done[t].calls = 4
           /\ \A c \in DOMAIN output_tables[t] :
                 {output_tables[t][c][i].row :
                     i \in DOMAIN output_tables[t][c]} = {1, 2}

\* C14: on every invocation that returns a sequence of arrays for names
\* n_1..n_k, the i-th array is appended to the buffer of n_i, for every i
\* that has both an array and a name, and every other buffer is left as it
\* was; a single array returned for a single name is appended to that
\* name's buffer.  The buffers before the call are those of lines 111-112
\* for a bulk call and the current ones for a per-row call.
C14_ArraysGoToTheirNames ==
    CallStep =>
        LET base == IF pc = "entry"
                    THEN InitBuffers(output_columns, CurNames)
                    ELSE output_columns
            k    == Len(CurNames)
            ret  == last_call'
            m    == IF ret.kind = "seq"
                    THEN (IF Len(ret.arrays) < k THEN Len(ret.arrays) ELSE k)
                    ELSE 1
        IN (ret.kind = "seq" \/ k = 1) =>
              /\ DOMAIN output_columns' = DOMAIN base
              /\ \A i \in 1..m :
                    output_columns'[CurNames[i]] =
                        Append(base[CurNames[i]], ret.arrays[i])
              /\ \A c \in DOMAIN base :
                    (\A i \in 1..m : CurNames[i] # c) =>
                        output_columns'[c] = base[c]

C14_PositionalAppend == [][C14_ArraysGoToTheirNames]_vars

\* The second per-row invocation of a two-name entry returned two different
\* arrays, and each is the last of its own name's buffer.
C14_Witness ==
    /\ pc = "entry"
    /\ last_call.kind = "seq"
    /\ last_call.row = 2
    /\ last_call.table = CurTable
    /\ Len(last_call.arrays) = 2
    /\ last_call.arrays[1] # last_call.arrays[2]
    /\ Len(last_call.arrays[1]) >= 1
    /\ SpecOf(spec, last_call.table).columns[last_call.entry] = 2
    /\ LET names == split_column_names(last_call.entry, 2)
       IN \A i \in 1..2 :
             /\ names[i] \in DOMAIN output_columns
             /\ Len(output_columns[names[i]]) = 2
             /\ output_columns[names[i]][2] = last_call.arrays[i]

\* The declared names of the current table whose buffer holds no array.
EmptyBuffers ==
    {c \in DeclaredNames(CurSpec) :
        c \notin DOMAIN output_columns \/ output_columns[c] = <<>>}

\* C17, the registered tables: a registered table that declares prereq_row
\* and has a column entry was built from a prerequisite table with at least
\* one row, and had at least one call for each of its entries.
C17_RegisteredHadOutput ==
    \A t \in Registered :
        LET ts == SpecOf(spec, t)
        IN /\ built.done[t].calls >= Len(ts.columns)
           /\ (ts.prereq_row # None /\ ts.columns # <<>>) =>
                  built.done[t].prow >= 1

\* C17, the step that ends a table (lines 128-132): when a declared name's
\* buffer is empty the call fails with the ValueError of line 129 and
\* registers nothing; a step that registers a table finds every declared
\* name with a buffer that is not empty.
C17_EmptyBufferFails ==
    /\ (pc = "entry" /\ entry > Len(CurSpec.columns) /\ EmptyBuffers # {}) =>
           /\ pc' = "failed"
           /\ err' = Raised("ValueError", 129, None)
           /\ output_tables' = output_tables
    /\ (writes' # writes) => EmptyBuffers = {}

C17_NoTableWithEmptyBuffer ==
    []C17_RegisteredHadOutput /\ [][C17_EmptyBufferFails]_vars

\* A table with a column entry and a registered prereq_row table of zero
\* rows: no call was made for it and its concatenation failed.
C17_Witness ==
    /\ pc = "failed"
    /\ err = Raised("ValueError", 129, None)
    /\ CurSpec.columns # <<>>
    /\ CurSpec.prereq_row \in Registered
    /\ NumRows(output_tables[CurSpec.prereq_row]) = 0
    /\ built.cur.calls = 0
    /\ CurTable \notin Registered

\* The tables reachable from the tables of S in 1..k prerequisite steps.
RECURSIVE ReachFrom(_, _, _)
ReachFrom(sp, S, k) ==
    IF k = 0 THEN {}
    ELSE LET N == UNION {PrereqNames(SpecOf(sp, t)) \cap all_tables(sp) :
                            t \in S}
         IN N \cup ReachFrom(sp, N, k - 1)

\* Some table is its own prerequisite, directly or through other tables.
Circular(sp) ==
    \E t \in all_tables(sp) :
        t \in ReachFrom(sp, {t}, Cardinality(all_tables(sp)))

\* Some table comes first in the order no later than a table it requires.
WrongOrder ==
    \E t \in all_tables(spec) :
        \E p \in PrereqNames(SpecOf(spec, t)) \cap all_tables(spec) :
            \E i \in Positions(order, t) :
                \A j \in Positions(order, p) : i <= j

Done == pc \in {"returned", "failed"}

\* Where the call is: the loops of lines 103, 108 and 121, outermost first.
Progress ==
    <<IF pc = "idle" THEN 0 ELSE IF Done THEN 2 ELSE 1,
      idx,
      IF pc = "table" THEN 0 ELSE 1,
      entry,
      IF pc = "rows" THEN 1 ELSE 0,
      n>>

LexLess(a, b) ==
    \E i \in DOMAIN a :
        /\ a[i] < b[i]
        /\ \A j \in 1..(i - 1) : a[j] = b[j]

\* C15, the loops: the table loop stays within the resolved order, the
\* entry loop within the table's columns and the row loop within the rows
\* of the prerequisite table.
C15_LoopsBounded ==
    /\ pc = "table" => idx \in 1..(Len(order) + 1)
    /\ pc \in {"entry", "rows"} =>
          /\ idx \in 1..Len(order)
          /\ entry \in 1..(Len(CurSpec.columns) + 1)
    /\ pc = "rows" =>
          /\ entry <= Len(CurSpec.columns)
          /\ CurSpec.prereq_row \in Registered
          /\ n < NumRows(output_tables[CurSpec.prereq_row])

\* C15, how the call ends: a call on a circular specification that returns
\* has built some table no later than a table it requires; one that fails
\* before any generator was called, with a row count for every table, has
\* failed in a prerequisite lookup (lines 117, 120, 121) or in the
\* concatenation of an empty buffer (line 129); and every failure is one of
\* the exceptions of lines 71, 116, 117, 120, 121, 123, 129 and 132.
C15_EndsOfCall ==
    /\ (pc = "returned" /\ Circular(spec)) => WrongOrder
    /\ (pc = "failed" /\ Circular(spec) /\ last_call = NoCall
           /\ num_rows.mode = "scalar") => err.line \in {117, 120, 121, 129}
    /\ pc = "failed" => err.line \in {71, 116, 117, 120, 121, 123, 129, 132}

\* C15, every step: the call advances in its loops, over an order and
\* tables of the prerequisite rows that do not change under it.
C15_Advances ==
    /\ LexLess(Progress, Progress')
    /\ spec' = spec
    /\ pc # "idle" => order' = order
    /\ (pc = "rows" /\ pc' = "rows") => output_tables' = output_tables

\* C15: make_chunk terminates on every specification, circular ones
\* included: a call that has started ends, by returning or by raising, and
\* on a circular specification it ends by returning tables built in a wrong
\* order, by a failed prerequisite lookup, or by another exception raised
\* during assembly.
C15_Terminates ==
    /\ [](C15_LoopsBounded /\ C15_EndsOfCall)
    /\ [][C15_Advances]_vars
    /\ (pc # "idle") ~> Done

\* Two tables that require each other, a generator was called, and the
\* call returned.
C15_Witness ==
    /\ pc = "returned"
    /\ Circular(spec)
    /\ Cardinality(all_tables(spec)) = 2
    /\ \A t \in all_tables(spec) :
          (PrereqNames(SpecOf(spec, t)) \cap all_tables(spec)) \ {t} # {}
    /\ last_call # NoCall

\* C15 as stated: a call on a circular specification ends either by
\* returning tables built in a wrong order or by a failed prerequisite
\* lookup.  (Stated for calls that fail before any generator was called
\* and have a row count for every table.)
C15_CircularEndsInOrderOrLookup ==
    (Circular(spec) /\ Done /\ last_call = NoCall
        /\ num_rows.mode = "scalar") =>
        \/ pc = "returned" /\ WrongOrder
        \/ pc = "failed" /\ err.line \in {117, 120, 121}

====
